---- MODULE Spec2Model ----
(***************************************************************************)
(* The four tasks of epoch.py: match_drug_names, match_usan_codes,         *)
(* counts_of_trials_by_usan_class and agg_counts_of_usan_pairs, each a     *)
(* batch function from the previous task's JSON artifact to the next.      *)
(*                                                                         *)
(* A Python str is a sequence of one-character strings, so that split,     *)
(* lower, strip, str(list), substring tests and string comparison are      *)
(* computed character by character as the code computes them.              *)
(***************************************************************************)
EXTENDS Integers, Sequences, FiniteSets, TLC

VARIABLES
    clinical_trials,       \* the trials frame handed to match_drug_names
    drugs,                 \* the vocabulary frame handed to match_drug_names
    usan_stems,            \* the stem table handed to match_usan_codes
    matched_drug_names,    \* ./output/matched_drug_names.json
    usan_json,             \* ./output/drugs_usan.json
    trials_by_usan,        \* ./output/trials_by_usan.json
    counts_of_usan_pairs,  \* ./output/counts_of_usan_pairs.json
    previous_pairs,        \* counts_of_usan_pairs.json as the run before left it
    runs,                  \* how many times agg_counts_of_usan_pairs has completed
    pc                     \* the task about to run, "done" or "aborted"

vars == << clinical_trials, drugs, usan_stems, matched_drug_names, usan_json,
           trials_by_usan, counts_of_usan_pairs, previous_pairs, runs, pc >>

(***************************************************************************)
(* Strings                                                                 *)
(***************************************************************************)

\* pandas' missing value (a float nan in an object column)
NaN == << "nan" >>

IsNaN(s) == s = NaN

\* Code points of the characters the model's strings are made of
Ord(c) ==
    CASE c = " " -> 32 [] c = "'" -> 39 [] c = "," -> 44 [] c = "-" -> 45
      [] c = "1" -> 49 [] c = "2" -> 50 [] c = "3" -> 51
      [] c = "A" -> 65 [] c = "B" -> 66 [] c = "N" -> 78
      [] c = "[" -> 91 [] c = "]" -> 93
      [] c = "a" -> 97 [] c = "b" -> 98 [] c = "x" -> 120 [] c = "y" -> 121
      [] c = "z" -> 122 [] c = "|" -> 124

\* str.__lt__: lexicographic by code point, a proper prefix first
RECURSIVE StrLess(_, _)
StrLess(s, t) ==
    IF t = << >> THEN FALSE
    ELSE IF s = << >> THEN TRUE
    ELSE IF Head(s) = Head(t) THEN StrLess(Tail(s), Tail(t))
    ELSE Ord(Head(s)) < Ord(Head(t))

\* str.lower on one character
LowerChar(c) == CASE c = "A" -> "a" [] c = "B" -> "b" [] c = "N" -> "n" [] OTHER -> c

\* Series.str.lower
Lower(s) == [i \in 1..Len(s) |-> LowerChar(s[i])]

\* p in s: the substring test.  Series.str.contains(p) is a regular
\* expression search; the model's tokens, names and stems are made of
\* letters, digits, spaces and hyphens, for which it is the substring test.
Contains(s, p) ==
    \E i \in 0..(Len(s) - Len(p)) : SubSeq(s, i + 1, i + Len(p)) = p

\* Series.str.endswith / Series.str.startswith; a nan cell gives nan, and
\* `nan == True` is False
EndsWith(s, p) ==
    /\ ~IsNaN(s)
    /\ Len(p) <= Len(s)
    /\ SubSeq(s, Len(s) - Len(p) + 1, Len(s)) = p

StartsWith(s, p) ==
    /\ ~IsNaN(s)
    /\ Len(p) <= Len(s)
    /\ SubSeq(s, 1, Len(p)) = p

\* str.split(' '): cut at every single space, empty pieces kept
RECURSIVE Split(_)
Split(s) ==
    IF \A i \in 1..Len(s) : s[i] # " " THEN << s >>
    ELSE LET i == CHOOSE k \in 1..Len(s) :
                      s[k] = " " /\ \A j \in 1..(k - 1) : s[j] # " "
         IN  << SubSeq(s, 1, i - 1) >> \o Split(SubSeq(s, i + 1, Len(s)))

\* Series.str.strip('-')
RECURSIVE Strip(_)
Strip(s) ==
    IF s = << >> THEN s
    ELSE IF Head(s) = "-" THEN Strip(Tail(s))
    ELSE IF s[Len(s)] = "-" THEN Strip(SubSeq(s, 1, Len(s) - 1))
    ELSE s

\* str(list) of a list of str: "['a', 'b']"
RECURSIVE RenderItems(_)
RenderItems(l) ==
    IF l = << >> THEN << >>
    ELSE << "'" >> \o Head(l) \o << "'" >>
         \o (IF Len(l) > 1 THEN << ",", " " >> ELSE << >>)
         \o RenderItems(Tail(l))

Render(l) == << "[" >> \o RenderItems(l) \o << "]" >>

\* Sequence helpers
RECURSIVE Flatten(_)
Flatten(ss) == IF ss = << >> THEN << >> ELSE Head(ss) \o Flatten(Tail(ss))

Range(s) == {s[i] : i \in 1..Len(s)}

\* every ordering of a finite set as a sequence
Orderings(S) ==
    {f \in [1..Cardinality(S) -> S] : \A i, j \in 1..Cardinality(S) : i # j => f[i] # f[j]}

\* the sequences over S of length lo..hi
SeqsOf(S, lo, hi) == UNION {[1..n -> S] : n \in lo..hi}

(***************************************************************************)
(* Task 1: match_drug_names                                                *)
(***************************************************************************)

ignore_set ==
    {
      <<"(","s","e","i","z","u","r","e">>, <<"p","r","e","v","e","n","t","i","o","n",")">>,
      <<"s","t","i","m","u","l","a","t","i","n","g">>, <<"h","o","r","m","o","n","e">>,
      <<"(","c","o","n","t","r","o","l",")">>, <<"-">>, <<"t","a","r","g","e","t">>,
      <<"c","o","n","t","r","o","l","l","e","d">>, <<"i","n","f","u","s","i","o","n">>,
      <<"s","y","s","t","e","m">>, <<"(","l","i","m","i","t","e","d",")">>,
      <<"p","l","a","c","e","b","o">>, <<"s","u","g","a","r">>, <<"p","i","l","l">>, <<"4","%">>,
      <<"g","e","l">>, <<"a","p","p","l","i","c","a","t","i","o","n">>, <<"w","i","t","h">>,
      <<"s","h","a","m">>, <<"m","i","c","r","o","n","e","e","d","l","e">>,
      <<"d","e","v","i","c","e">>,
      <<"m","i","c","r","o","n","e","e","d","l","e","-","f","a","c","i","l","i","t","a","t","e","d">>,
      <<"a","p","p","l","i","c","a","t","i","o","n">>, <<"v","e","i","n">>, <<"s","o","a","k">>,
      <<"t","r","e","a","t","e","d">>, <<"w","i","t","h">>, <<"l","a","c","t","a","t","e","d">>,
      <<"r","i","n","g","e","r","s">>, <<"s","o","l","u","t","i","o","n">>,
      <<"h","o","r","m","o","n","e","-","r","e","l","a","t","e","d">>,
      <<"p","r","o","t","e","i","n">>, <<"a","n","d">>, <<"2","n","d">>, <<"p","h","a","s","e">>,
      <<"t","o","x","i","n">>, <<"t","y","p","e","-","a">>, <<"l","e","a","v","e","s">>,
      <<"5","%">>, <<"h","y","d","r","o","c","h","l","o","r","i","d","e">>,
      <<"c","o","n","t","i","n","u","a","t","i","o","n">>, <<"o","m","i","s","s","i","o","n">>,
      <<"1","0","0","0","m","g">>, <<"2","0","0","0","m","g">>, <<"2","5","0">>, <<"m","g">>,
      <<"5","0","0","m","g">>, <<"5","0">>, <<"i","v">>, <<"o","r","a","l">>,
      <<"a","n","t","i","p","l","a","t","e","l","e","t">>, <<"r","e","g","i","m","e","n">>,
      <<"m","o","d","i","f","i","c","a","t","i","o","n">>, <<"o","r">>,
      <<"m","e","t","h","y","l">>, <<"r","e","c","o","m","b","i","n","a","n","t">>,
      <<"h","u","m","a","n">>, <<"e","r","y","t","h","r","o","p","o","i","e","t","i","n">>,
      <<"c","d">>, <<"2">>, <<"a","d","m","i","n","i","s","t","r","a","t","i","o","n">>,
      <<"w","i","t","h","d","r","a","w","a","l">>, <<"o","f">>,
      <<"h","i","g","h","-","d","o","s","e">>, <<"r","e","g","i","m","e","n","s">>,
      <<"u","s","e">>, <<"0",".","0","3","%">>, <<"t","o","p","i","c","a","l">>,
      <<"o","b","s","e","r","v","a","t","i","o","n","a","l">>,
      <<"a","n","t","i","f","u","n","g","a","l">>, <<"t","h","e","r","a","p","y">>,
      <<"t","i","s","s","u","e">>, <<"p","l","a","s","m","i","n","o","g","e","n">>,
      <<"a","c","t","i","v","a","t","o","r">>, <<"n","o","r","m","a","l">>,
      <<"s","a","l","i","n","e">>, <<"a","d","o","p","t","i","v","e">>,
      <<"i","m","m","u","n","o","t","h","e","r","a","p","y">>, <<"s","i","n","g","l","e">>,
      <<"b","o","l","u","s">>, <<"o","f">>, <<"a">>, <<"t","r","e","a","t","m","e","n","t">>,
      <<"m",",">>, <<"r","e","d","u","c","e","d">>, <<"n","i","c","o","t","i","n","e">>,
      <<"c","o","n","t","e","n","t">>, <<"c","i","g","a","r","e","t","t","e","s">>,
      <<"u","s","u","a","l">>, <<"p","a","t","c","h">>, <<"p","l","u","s">>,
      <<"g","u","m","/","l","o","z","e","n","g","e">>, <<"a","c","i","d">>, <<"1","0","0">>,
      <<"2","0","0">>, <<"c","r","e","a","m">>, <<"0",".","3">>, <<"%">>,
      <<"w","i","t","h","o","u","t">>, <<"a","c","t","i","v","e">>,
      <<"s","u","b","s","t","a","n","c","e">>, <<"1","5","%">>,
      <<"i","n","a","c","t","i","v","a","t","e","d">>, <<"t","r","i","v","a","l","e","n","t">>,
      <<"i","n","f","l","u","e","n","z","a">>, <<"v","a","c","c","i","n","e">>,
      <<"o","r","a","l","l","y">>, <<"e","v","e","r","y","d","a","y">>, <<"h","p","v">>,
      <<"v","a","c","c","i","n","e">>, <<"t","h","e","r","a","p","y",".">>,
      <<"(","i","d","e","n","t","i","c","a","l">>, <<"v","o","l","u","m","e">>, <<"o","f">>,
      <<"n","o","r","m","a","l">>, <<"s","a","l","i","n","e",")">>, <<"0",".","9","%">>,
      <<"s","o","d","i","u","m">>, <<"c","h","l","o","r","i","d","e">>,
      <<"i","n","j","e","c","t","a","b","l","e">>, <<"1">>, <<"g","r","a","m">>,
      <<"g","r","a","m","s">>,
      <<"t","a","r","g","e","t","-","c","o","n","t","r","o","l","l","e","d">>,
      <<"a","n","t","i","c","o","a","g","u","l","a","n","t">>, <<"b","y">>,
      <<"p","h","y","s","i","c","i","a","n">>, <<"c","r","i","t","e","r","i","a">>,
      <<"s","p","r","a","y">>, <<"n","a","s","a","l">>, <<"9","5","%">>, <<"p","u","r","e">>,
      <<"c","a","p","s","u","l","e","s">>, <<"2","0","0","m","g">>, <<"t","a","b","l","e","t">>,
      <<"g","r","o","u","p">>, <<"a","d","j","u","v","a","n","t">>,
      <<"p","e","r","i","o","p","e","r","a","t","i","v","e">>, <<"(","1","-","3","6",")">>,
      <<"f","u","m","a","r","a","t","e">>, <<"d","i","s","o","p","r","o","x","i","l">>,
      <<"c","i","t","r","a","t","e">>, <<"s","-","1">>, <<"p","l","u","s">>
    }

\* the tokens of an intervention name that the lookup is run for (lines 56-60)
Tokens(intervention_name) ==
    SelectSeq(Split(intervention_name), LAMBDA t : t \notin ignore_set)

\* drugs[drugs.altLabel_list.str.contains(j)]['itemLabel'].values (lines 63-65)
MatchingLabels(vocabulary, j) ==
    LET hits == SelectSeq(vocabulary, LAMBDA d : Contains(d.altLabel_list, j))
    IN  [k \in 1..Len(hits) |-> hits[k].itemLabel]

\* PickLabel with .values[0] in place of .values[-1]
PickLabel_First(values) == values[1]

\* .values[-1] (line 65)
PickLabel(values) == values[Len(values)]

\* one pass of the try/except of lines 61-68: what the token adds to lisst;
\* values[-1] of an empty array raises IndexError, which `except: pass` drops
Lookup(vocabulary, j) ==
    LET values == MatchingLabels(vocabulary, j)
    IN  IF values = << >> THEN << >> ELSE << PickLabel(values) >>

\* lisst after the inner loop over one row (lines 55-68)
Lisst(vocabulary, intervention_name) ==
    LET toks == Tokens(intervention_name)
    IN  Flatten([k \in 1..Len(toks) |-> Lookup(vocabulary, toks[k])])

\* IsDrugRow with the filter on intervention_type lost
IsDrugRow_AnyType(row) == row.intervention_type \in {"Drug", "Other"}

\* clinical_trials.intervention_type == 'Drug' (lines 53, 71)
IsDrugRow(row) == row.intervention_type = "Drug"

\* the rows of `output` (lines 71-72): Drug rows whose Drugs cell, str(lisst),
\* is not '[]'
OutputRows(trials, vocabulary) ==
    SelectSeq(trials,
              LAMBDA row : /\ IsDrugRow(row)
                           /\ Render(Lisst(vocabulary, row.intervention_name))
                                  # Render(<< >>))

\* the list match_drug_names returns and dumps (lines 75-85);
\* literal_eval(str(lisst)) is lisst for a list of str
MatchDrugNamesResult(trials, vocabulary) ==
    LET rows == OutputRows(trials, vocabulary)
    IN  [k \in 1..Len(rows) |->
            [nct_id |-> rows[k].nct_id,
             drugs  |-> Lisst(vocabulary, rows[k].intervention_name)]]

(***************************************************************************)
(* Task 2: match_usan_codes                                                *)
(***************************************************************************)

\* set(drug for sublist in drug_names.drugs for drug in sublist) (line 104)
DistinctDrugs(matched) ==
    UNION { Range(matched[k].drugs) : k \in 1..Len(matched) }

\* usan_stems.stem.str.strip('-').dropna() (lines 112, 116)
StrippedStems(stems) ==
    LET kept == SelectSeq(stems, LAMBDA r : ~IsNaN(r.stem))
    IN  [k \in 1..Len(kept) |-> Strip(kept[k].stem)]

\* the columns of the drug's row that are True (lines 111, 153): the stripped
\* stems the drug name contains, one per stem-table row, in table order
MatchedStems(stems, drug) ==
    SelectSeq(StrippedStems(stems), LAMBDA i : Contains(drug, i))

\* usan_stems[usan_stems.name.str.endswith(i) == True]['definition'].values
DefinitionsByNameEnd(stems, i) ==
    LET hits == SelectSeq(stems, LAMBDA r : EndsWith(r.name, i))
    IN  [k \in 1..Len(hits) |-> hits[k].definition]

\* usan_stems[usan_stems.name.str.startswith(i) == True]['definition'].values
DefinitionsByNameStart(stems, i) ==
    LET hits == SelectSeq(stems, LAMBDA r : StartsWith(r.name, i))
    IN  [k \in 1..Len(hits) |-> hits[k].definition]

\* usan_stems[usan_stems.stem.str.endswith(i) == True]['definition'].values
DefinitionsByStemEnd(stems, i) ==
    LET hits == SelectSeq(stems, LAMBDA r : EndsWith(r.stem, i))
    IN  [k \in 1..Len(hits) |-> hits[k].definition]

\* what description(i) gives when values[0] of its third lookup raises
\* IndexError, which no handler catches
IndexError == [description |-> NaN, type |-> "IndexError"]

\* description with the stem lookup tried before the class-name lookups
description_StemFirst(stems, i) ==
    LET byEnd   == DefinitionsByNameEnd(stems, i)
        byStart == DefinitionsByNameStart(stems, i)
        byStem  == DefinitionsByStemEnd(stems, i)
    IN  IF byStem # << >> THEN [description |-> byStem[1], type |-> "subclass"]
        ELSE IF byEnd # << >> THEN [description |-> byEnd[1], type |-> "class"]
        ELSE IF byStart # << >> THEN [description |-> byStart[1], type |-> "class"]
        ELSE IndexError

\* description(i) (lines 123-145): values[0] of the first lookup that is
\* not empty, each `except:` falling to the next lookup
description(stems, i) ==
    LET byEnd   == DefinitionsByNameEnd(stems, i)
        byStart == DefinitionsByNameStart(stems, i)
        byStem  == DefinitionsByStemEnd(stems, i)
    IN  IF byEnd # << >> THEN [description |-> byEnd[1], type |-> "class"]
        ELSE IF byStart # << >> THEN [description |-> byStart[1], type |-> "class"]
        ELSE IF byStem # << >> THEN [description |-> byStem[1], type |-> "subclass"]
        ELSE IndexError

\* the usan_codes of one drug (lines 151-154)
UsanCodes(stems, drug) ==
    LET ms == MatchedStems(stems, drug)
    IN  [k \in 1..Len(ms) |-> description(stems, ms[k])]

\* iter_index (line 120): the drugs with at least one True column, in
\* drugs_list order
IterIndex(stems, drugs_list) ==
    SelectSeq(drugs_list, LAMBDA d : MatchedStems(stems, d) # << >>)

\* usan_json (lines 148-157)
UsanJson(stems, drugs_list) ==
    LET idx == IterIndex(stems, drugs_list)
    IN  [k \in 1..Len(idx) |->
            [drug |-> idx[k], usan_codes |-> UsanCodes(stems, idx[k])]]

\* match_usan_codes raises instead of returning: the artifact read at line
\* 100 has no rows and so no `drugs` column (line 104), pd.concat gets no
\* column to concatenate (line 109), or description raises (line 152)
UsanRaises(matched, stems) ==
    \/ matched = << >>
    \/ StrippedStems(stems) = << >>
    \/ \E d \in DistinctDrugs(matched) :
           \E k \in 1..Len(UsanCodes(stems, d)) : UsanCodes(stems, d)[k] = IndexError

(***************************************************************************)
(* Task 3: counts_of_trials_by_usan_class                                  *)
(***************************************************************************)

\* TrialsOfDrug with the drug looked up as a member of the drugs list
TrialsOfDrug_ExactName(matched, drug) ==
    LET hits == SelectSeq(matched, LAMBDA e : drug \in Range(e.drugs))
    IN  [k \in 1..Len(hits) |-> hits[k].nct_id]

\* list(drug_names[drug_names.drugs.str.contains(j.drug)]['nct_id'].values)
\* (lines 177, 182-184): astype(str) has turned each drugs list into its
\* str(), and the drug name is searched in that text
TrialsOfDrug(matched, drug) ==
    LET hits == SelectSeq(matched, LAMBDA e : Contains(Render(e.drugs), drug))
    IN  [k \in 1..Len(hits) |-> hits[k].nct_id]

\* the usan_codes of one usan_table row with k['trials'] set (lines 189-191)
CodesWithTrials(matched, row) ==
    [k \in 1..Len(row.usan_codes) |->
        [description |-> row.usan_codes[k].description,
         type        |-> row.usan_codes[k].type,
         trials      |-> TrialsOfDrug(matched, row.drug)]]

\* trials_by_usan (lines 194-196)
TrialsByUsan(matched, usan_table) ==
    Flatten([r \in 1..Len(usan_table) |-> CodesWithTrials(matched, usan_table[r])])

(***************************************************************************)
(* Task 4: agg_counts_of_usan_pairs                                        *)
(***************************************************************************)

\* the first occurrence of each element, in order (drop_duplicates, and the
\* key order of a Counter)
RECURSIVE Dedup(_)
Dedup(s) ==
    IF s = << >> THEN << >>
    ELSE LET d == Dedup(SubSeq(s, 1, Len(s) - 1))
         IN  IF s[Len(s)] \in Range(d) THEN d ELSE Append(d, s[Len(s)])

\* sorted(g) for a list of str
RECURSIVE Sorted(_)
Sorted(g) ==
    IF g = << >> THEN << >>
    ELSE LET m == CHOOSE k \in 1..Len(g) :
                      /\ \A j \in 1..Len(g) : ~StrLess(g[j], g[k])
                      /\ \A j \in 1..(k - 1) : g[j] # g[k]
         IN  << g[m] >> \o Sorted(SubSeq(g, 1, m - 1) \o SubSeq(g, m + 1, Len(g)))

\* set(combinations(l, 2))
Combinations2(l) ==
    { << l[p[1]], l[p[2]] >> :
        p \in { q \in (1..Len(l)) \X (1..Len(l)) : q[1] < q[2] } }

\* class records only, the type column dropped, duplicates dropped (lines
\* 215-220).  astype(str) at line 215 has turned every trials list into its
\* str(), which explode leaves as it is: a row's trials cell is the text of
\* the record's whole list
ClassRows(artifact) ==
    LET class == SelectSeq(artifact, LAMBDA r : r.type = "class")
    IN  Dedup([k \in 1..Len(class) |->
                  [description |-> class[k].description,
                   trials      |-> Render(class[k].trials)]])

\* the group keys of groupby(['trials']), which sorts them (line 223)
GroupKeys(rows) == Sorted(Dedup([k \in 1..Len(rows) |-> rows[k].trials]))

\* g: the description column of one group (line 224)
GroupOf(rows, key) ==
    LET members == SelectSeq(rows, LAMBDA r : r.trials = key)
    IN  [k \in 1..Len(members) |-> members[k].description]

\* PairsOfGroup with sorted() lost
PairsOfGroup_Unsorted(g) == Combinations2(g)

\* what the lambda of line 224 makes of a group
PairsOfGroup(g) == Combinations2(Sorted(g))

\* set(combinations(sorted(g), 2)) of one group
GroupPairs(rows, key) == PairsOfGroup(GroupOf(rows, key))

\* the `pairs` frame (lines 223-225): per group, list(set(...)).  A set of
\* tuples of str is iterated in hash order, which differs from one
\* interpreter run to the next: any ordering of the set
PairLists(rows) ==
    LET keys == GroupKeys(rows)
        all  == UNION { Orderings(GroupPairs(rows, keys[n])) : n \in 1..Len(keys) }
    IN  { pl \in [1..Len(keys) -> all] :
            \A n \in 1..Len(keys) : pl[n] \in Orderings(GroupPairs(rows, keys[n])) }

\* Counter(pairs.description.sum()).items() (line 228): each distinct pair
\* in first-occurrence order, with its number of occurrences
CounterItems(flat) ==
    LET keys == Dedup(flat)
    IN  [k \in 1..Len(keys) |->
            [USANclasspairs |-> keys[k],
             tcount |-> Cardinality({n \in 1..Len(flat) : flat[n] = keys[k]})]]

\* sort_values('tcount', ascending=False) (lines 230-232); on frames this
\* short the sort leaves rows of equal tcount in their order
RECURSIVE SortByCount(_)
SortByCount(items) ==
    IF items = << >> THEN << >>
    ELSE LET m == CHOOSE k \in 1..Len(items) :
                      /\ \A j \in 1..Len(items) : items[j].tcount <= items[k].tcount
                      /\ \A j \in 1..(k - 1) : items[j].tcount < items[k].tcount
         IN  << items[m] >>
             \o SortByCount(SubSeq(items, 1, m - 1) \o SubSeq(items, m + 1, Len(items)))

\* counts_of_usan_pairs (lines 227-241) for one iteration order of the sets
CountsOfUsanPairs(pl) ==
    LET paired_count == SortByCount(CounterItems(Flatten(pl)))
    IN  [k \in 1..Len(paired_count) |->
            [description_1 |-> paired_count[k].USANclasspairs[1],
             description_2 |-> paired_count[k].USANclasspairs[2],
             trial_count   |-> paired_count[k].tcount]]

\* agg_counts_of_usan_pairs raises instead of returning: with no class
\* record (or no record at all, when the frame has no `type` column) the
\* `pairs` frame is empty, its description column sums to 0 and Counter(0)
\* raises TypeError (lines 219, 228)
PairsRaises(artifact) == ClassRows(artifact) = << >>

(***************************************************************************)
(* Inputs of the main program (lines 251-266), within bounds               *)
(***************************************************************************)

\* longest intervention name of the first trial, in characters
MaxNameLen == 3

\* most rows of drugs.csv
MaxVocab == 2

NameChars == {"a", "b", " "}

NctIds == << <<"N", "1">>, <<"N", "2">> >>

InterventionTypes == {"Drug", "Other"}

\* intervention names after str.lower (lines 256-258)
InterventionNames == SeqsOf(NameChars, 0, MaxNameLen)

\* a second trial, when there is one
SecondNames == { <<"b">>, <<"b", " ", " ", "b", "b">> }

Corpora ==
    { << [nct_id |-> NctIds[1], intervention_type |-> t, intervention_name |-> n] >> \o rest :
        t \in InterventionTypes, n \in InterventionNames,
        rest \in {<< >>} \cup
                 { << [nct_id |-> NctIds[2], intervention_type |-> t2,
                       intervention_name |-> n2] >> :
                     t2 \in InterventionTypes, n2 \in SecondNames } }

\* rows of drugs.csv as read (line 260)
DrugsCsv ==
    { [itemLabel |-> <<"B", "a">>, altLabel_list |-> <<"A", "b">>],
      [itemLabel |-> <<"b", "b">>, altLabel_list |-> <<"b">>],
      [itemLabel |-> <<"A">>,      altLabel_list |-> <<"a", "a">>] }

\* lines 261-262: the labels lower-cased, then '|' and the item label appended
PrepareDrugs(csv) ==
    [k \in 1..Len(csv) |->
        [itemLabel     |-> csv[k].itemLabel,
         altLabel_list |-> Lower(csv[k].altLabel_list) \o <<"|">> \o csv[k].itemLabel]]

Vocabularies == { PrepareDrugs(csv) : csv \in SeqsOf(DrugsCsv, 0, MaxVocab) }


\* most rows of usan_stems.csv
MaxStems == 2

\* most usan_codes of one drug in drugs_usan.json
MaxCodes == 1

\* most records of trials_by_usan.json
MaxRecords == 3

\* how many times agg_counts_of_usan_pairs is run on one artifact
MaxRuns == 2

\* stem tables of the whole program's runs
MainStemTables ==
    { << [stem |-> <<"-", "a">>, name |-> <<"-", "a">>, definition |-> <<"x">>],
         [stem |-> <<"-", "b">>, name |-> <<"-", "b">>, definition |-> <<"y">>],
         [stem |-> <<"-", "b", "b">>, name |-> <<"-", "b", "b">>, definition |-> <<"z">>] >>,
      << [stem |-> <<"-", "a">>, name |-> NaN, definition |-> <<"x">>],
         [stem |-> <<"b", "-">>, name |-> NaN, definition |-> <<"y">>] >> }

\* rows of usan_stems.csv
StemRows ==
    [stem : { <<"-", "b">>, <<"-", "a", "b">>, <<"b", "-">> },
     name : { NaN, <<"-", "b">>, <<"b", "-">> },
     definition : { <<"x">>, <<"y">> }]

StemTables == SeqsOf(StemRows, 0, MaxStems)

\* the drugs lists of matched_drug_names.json entries
DrugLists == { << <<"a", "b">> >>, << <<"b">> >>, << <<"a">>, <<"a", "b">> >>,
               << <<"b">>, <<"b">> >> }

\* matched_drug_names.json artifacts: one or two entries
MatchedArtifacts ==
    { [k \in 1..n |-> [nct_id |-> NctIds[k], drugs |-> dl[k]]] :
        n \in 1..Len(NctIds), dl \in [1..Len(NctIds) -> DrugLists] }

Descriptions == { <<"x">>, <<"y">>, <<"x", "a">> }

Types == {"class", "subclass"}

\* usan_codes lists of drugs_usan.json
CodeLists == SeqsOf([description : {<<"x">>, <<"y">>}, type : Types], 1, MaxCodes)

\* a drugs_usan.json artifact: these drugs, in this order, with these
\* usan_codes
UsanArtifact(order, cl) ==
    [k \in 1..Len(order) |-> [drug |-> order[k], usan_codes |-> cl[order[k]]]]

\* trials lists of trials_by_usan.json records
TrialLists == { << NctIds[1] >>, << NctIds[2] >>, << NctIds[1], NctIds[2] >> }

\* trials_by_usan.json artifacts
PairArtifacts ==
    SeqsOf([description : Descriptions, type : Types, trials : TrialLists], 0, MaxRecords)

Blank ==
    /\ matched_drug_names = << >>
    /\ usan_json = << >>
    /\ trials_by_usan = << >>
    /\ counts_of_usan_pairs = << >>
    /\ previous_pairs = << >>
    /\ runs = 0

\* the whole program (lines 251-280)
Init ==
    /\ clinical_trials \in Corpora
    /\ drugs \in Vocabularies
    /\ usan_stems \in MainStemTables
    /\ Blank
    /\ pc = "q1"

\* Task 2 run on a matched_drug_names.json artifact
InitUsan ==
    /\ clinical_trials = << >>
    /\ drugs = << >>
    /\ usan_stems \in StemTables
    /\ matched_drug_names \in MatchedArtifacts
    /\ usan_json = << >>
    /\ trials_by_usan = << >>
    /\ counts_of_usan_pairs = << >>
    /\ previous_pairs = << >>
    /\ runs = 0
    /\ pc = "q2"

\* Task 3 run on the artifacts of tasks 1 and 2: drugs_usan.json holds distinct
\* drugs of matched_drug_names.json, in any order
InitTrials ==
    /\ clinical_trials = << >>
    /\ drugs = << >>
    /\ usan_stems = << >>
    /\ matched_drug_names \in MatchedArtifacts
    /\ \E S \in SUBSET DistinctDrugs(matched_drug_names) :
           \E order \in Orderings(S), cl \in [S -> CodeLists] :
               usan_json = UsanArtifact(order, cl)
    /\ trials_by_usan = << >>
    /\ counts_of_usan_pairs = << >>
    /\ previous_pairs = << >>
    /\ runs = 0
    /\ pc = "q3"

\* Task 4 run on a trials_by_usan.json artifact
InitPairs ==
    /\ clinical_trials = << >>
    /\ drugs = << >>
    /\ usan_stems = << >>
    /\ matched_drug_names = << >>
    /\ usan_json = << >>
    /\ trials_by_usan \in PairArtifacts
    /\ counts_of_usan_pairs = << >>
    /\ previous_pairs = << >>
    /\ runs = 0
    /\ pc = "q4"

match_drug_names ==
    /\ pc = "q1"
    /\ matched_drug_names' = MatchDrugNamesResult(clinical_trials, drugs)
    /\ pc' = "q2"
    /\ UNCHANGED << clinical_trials, drugs, usan_stems, usan_json, trials_by_usan,
                    counts_of_usan_pairs, previous_pairs, runs >>

\* list(set(...)) at lines 103-105 iterates the set in hash order
match_usan_codes ==
    /\ pc = "q2"
    /\ ~UsanRaises(matched_drug_names, usan_stems)
    /\ \E drugs_list \in Orderings(DistinctDrugs(matched_drug_names)) :
           usan_json' = UsanJson(usan_stems, drugs_list)
    /\ pc' = "q3"
    /\ UNCHANGED << clinical_trials, drugs, usan_stems, matched_drug_names,
                    trials_by_usan, counts_of_usan_pairs, previous_pairs, runs >>

match_usan_codes_raises ==
    /\ pc = "q2"
    /\ UsanRaises(matched_drug_names, usan_stems)
    /\ pc' = "aborted"
    /\ UNCHANGED << clinical_trials, drugs, usan_stems, matched_drug_names, usan_json,
                    trials_by_usan, counts_of_usan_pairs, previous_pairs, runs >>

counts_of_trials_by_usan_class ==
    /\ pc = "q3"
    /\ trials_by_usan' = TrialsByUsan(matched_drug_names, usan_json)
    /\ pc' = "q4"
    /\ UNCHANGED << clinical_trials, drugs, usan_stems, matched_drug_names, usan_json,
                    counts_of_usan_pairs, previous_pairs, runs >>

\* one run of task 4; a later run reads the same trials_by_usan.json and
\* overwrites counts_of_usan_pairs.json
agg_counts_of_usan_pairs ==
    /\ pc \in {"q4", "done"}
    /\ runs < MaxRuns
    /\ ~PairsRaises(trials_by_usan)
    /\ \E pl \in PairLists(ClassRows(trials_by_usan)) :
           counts_of_usan_pairs' = CountsOfUsanPairs(pl)
    /\ previous_pairs' = counts_of_usan_pairs
    /\ runs' = runs + 1
    /\ pc' = "done"
    /\ UNCHANGED << clinical_trials, drugs, usan_stems, matched_drug_names, usan_json,
                    trials_by_usan >>

agg_counts_of_usan_pairs_raises ==
    /\ pc = "q4"
    /\ PairsRaises(trials_by_usan)
    /\ pc' = "aborted"
    /\ UNCHANGED << clinical_trials, drugs, usan_stems, matched_drug_names, usan_json,
                    trials_by_usan, counts_of_usan_pairs, previous_pairs, runs >>

Next ==
    \/ match_drug_names
    \/ match_usan_codes
    \/ match_usan_codes_raises
    \/ counts_of_trials_by_usan_class
    \/ agg_counts_of_usan_pairs
    \/ agg_counts_of_usan_pairs_raises

Spec == Init /\ [][Next]_vars

NextUsan == match_usan_codes \/ match_usan_codes_raises

SpecUsan == InitUsan /\ [][NextUsan]_vars

SpecTrials == InitTrials /\ [][counts_of_trials_by_usan_class]_vars

NextPairs == agg_counts_of_usan_pairs \/ agg_counts_of_usan_pairs_raises

SpecPairs == InitPairs /\ [][NextPairs]_vars


(***************************************************************************)
(* Properties of task 1 (checked under Spec)                               *)
(***************************************************************************)

\* the rows of clinical_trials with this nct_id
RowsWithId(id) ==
    { k \in 1..Len(clinical_trials) : clinical_trials[k].nct_id = id }

\* C2: no trial whose intervention_type is not 'Drug' has an entry in
\* matched_drug_names; every entry's nct_id is that of a 'Drug' trial and its
\* drugs sequence is not empty.
C2_OnlyDrugTrialsMatched ==
    pc # "q1" =>
        /\ \A e \in 1..Len(matched_drug_names) :
               /\ matched_drug_names[e].drugs # << >>
               /\ \E k \in RowsWithId(matched_drug_names[e].nct_id) :
                      clinical_trials[k].intervention_type = "Drug"
        /\ \A k \in 1..Len(clinical_trials) :
               clinical_trials[k].intervention_type # "Drug" =>
                   \A e \in 1..Len(matched_drug_names) :
                       matched_drug_names[e].nct_id # clinical_trials[k].nct_id

\* the vocabulary rows whose alt-label text contains the token
EntriesContaining(j) ==
    { v \in 1..Len(drugs) : Contains(drugs[v].altLabel_list, j) }

\* a trial that is not 'Drug', whose name would match, beside one that is
\* 'Drug' and did match
C2_Witness ==
    /\ pc = "q2"
    /\ matched_drug_names # << >>
    /\ \E k \in 1..Len(clinical_trials) :
           /\ clinical_trials[k].intervention_type # "Drug"
           /\ \E t \in Range(Split(clinical_trials[k].intervention_name)) :
                  t \notin ignore_set /\ EntriesContaining(t) # {}

\* the tokens of a name a lookup succeeds for: pieces between single spaces
\* that are no stop word and are contained in some entry's alt-label text
FoundTokens(name) ==
    SelectSeq(Split(name), LAMBDA t : t \notin ignore_set /\ EntriesContaining(t) # {})

\* the entry of matched_drug_names written for a row, << >> when none
EntryOf(k) ==
    SelectSeq(matched_drug_names, LAMBDA e : e.nct_id = clinical_trials[k].nct_id)

WordTokens(name) ==
    SelectSeq(Split(name),
              LAMBDA t : t # << >> /\ t \notin ignore_set /\ EntriesContaining(t) # {})

\* C10: the drugs sequence of a 'Drug' trial holds exactly one canonical name
\* per whitespace-delimited, non-empty, non-stop-word token that some entry's
\* alt-label text contains, in token order; stop words, tokens without a match
\* and runs of spaces add nothing.
C10_OneNamePerToken ==
    pc # "q1" =>
        \A k \in 1..Len(clinical_trials) :
            clinical_trials[k].intervention_type = "Drug" =>
                LET toks == WordTokens(clinical_trials[k].intervention_name)
                IN  IF toks = << >> THEN EntryOf(k) = << >>
                    ELSE /\ Len(EntryOf(k)) = 1
                         /\ Len(EntryOf(k)[1].drugs) = Len(toks)
                         /\ \A n \in 1..Len(toks) :
                                \E v \in EntriesContaining(toks[n]) :
                                    EntryOf(k)[1].drugs[n] = drugs[v].itemLabel

(***************************************************************************)
(* Properties of task 2 (checked under SpecUsan)                           *)
(***************************************************************************)

\* the definitions of the rows whose class name ends with / starts with the
\* stem, and of the rows whose own stripped stem is the stem
DefsNameEnds(i) ==
    { usan_stems[r].definition : r \in { q \in 1..Len(usan_stems) :
                                             EndsWith(usan_stems[q].name, i) } }

DefsNameStarts(i) ==
    { usan_stems[r].definition : r \in { q \in 1..Len(usan_stems) :
                                             StartsWith(usan_stems[q].name, i) } }

DefsOwnRow(i) ==
    { usan_stems[r].definition : r \in { q \in 1..Len(usan_stems) :
                                             /\ ~IsNaN(usan_stems[q].stem)
                                             /\ Strip(usan_stems[q].stem) = i } }

\* the stripped stems a drug name contains, one per stem-table row
StemsIn(drug) ==
    LET rows == SelectSeq(usan_stems,
                          LAMBDA r : ~IsNaN(r.stem) /\ Contains(drug, Strip(r.stem)))
    IN  [k \in 1..Len(rows) |-> Strip(rows[k].stem)]

\* usan_json has one usan_codes entry per stem its drug contains
CodesAligned ==
    \A d \in 1..Len(usan_json) :
        Len(usan_json[d].usan_codes) = Len(StemsIn(usan_json[d].drug))

\* every usan_codes entry of usan_json paired with the stem it was resolved
\* from
ResolvedCodes ==
    UNION { { << usan_json[d].usan_codes[n], StemsIn(usan_json[d].drug)[n] >> :
                n \in 1..Len(usan_json[d].usan_codes) } :
            d \in 1..Len(usan_json) }

\* C4: a matched stem that some row's class name ends with, or failing that
\* starts with, resolves to type=class with such a row's definition; subclass
\* is returned only when neither class-name lookup finds a row.
C4_ClassPreferred ==
    pc = "q3" =>
        /\ CodesAligned
        /\ \A p \in ResolvedCodes :
               LET c == p[1]
                   i == p[2]
               IN  /\ DefsNameEnds(i) # {} =>
                          c.type = "class" /\ c.description \in DefsNameEnds(i)
                   /\ (DefsNameEnds(i) = {} /\ DefsNameStarts(i) # {}) =>
                          c.type = "class" /\ c.description \in DefsNameStarts(i)
                   /\ c.type = "subclass" =>
                          DefsNameEnds(i) = {} /\ DefsNameStarts(i) = {}

\* a stem found both in a class name and in another row's stem field,
\* resolved to that class
C4_Witness ==
    /\ pc = "q3"
    /\ \E d \in 1..Len(usan_json) :
           \E n \in 1..Len(usan_json[d].usan_codes) :
               LET i == StemsIn(usan_json[d].drug)[n]
               IN  /\ usan_json[d].usan_codes[n].type = "class"
                   /\ \E r, s \in 1..Len(usan_stems) :
                          /\ r # s
                          /\ EndsWith(usan_stems[r].name, i) \/ StartsWith(usan_stems[r].name, i)
                          /\ Strip(usan_stems[s].stem) = i
                          /\ usan_stems[s].definition # usan_stems[r].definition
                          /\ ~EndsWith(usan_stems[s].name, i)
                          /\ ~StartsWith(usan_stems[s].name, i)

\* C7: a type=subclass entry carries the definition of the matched stem's own
\* row (the row whose hyphen-stripped stem is the matched stem), a type=class
\* entry the definition of a row the class-name lookup finds, also when
\* another row's stem field ends with the same fragment.
C7_SubclassOwnDefinition ==
    pc = "q3" =>
        /\ CodesAligned
        /\ \A p \in ResolvedCodes :
               LET c == p[1]
                   i == p[2]
               IN  /\ c.type = "subclass" => c.description \in DefsOwnRow(i)
                   /\ c.type = "class" =>
                          c.description \in DefsNameEnds(i) \cup DefsNameStarts(i)

\* C9: for every drug that contains a hyphen-stripped stem, match_usan_codes
\* completes and emits a record for the drug: the resolution always returns
\* a description, prefix stems with a trailing hyphen included.
C9_NeverAborts ==
    pc # "q2" =>
        \A drug \in DistinctDrugs(matched_drug_names) :
            StemsIn(drug) # << >> =>
                /\ pc = "q3"
                /\ \E d \in 1..Len(usan_json) : usan_json[d].drug = drug

(***************************************************************************)
(* Properties of task 3 (checked under SpecTrials)                         *)
(***************************************************************************)

\* the trial ids of the matched_drug_names entries whose rendered drugs list
\* contains the drug's name
TrialSetOf(drug) ==
    { matched_drug_names[k].nct_id :
        k \in { e \in 1..Len(matched_drug_names) :
                    Contains(Render(matched_drug_names[e].drugs), drug) } }

\* the drugs of usan_json with a usan_codes entry of this description
DrugsDescribed(description_) ==
    { usan_json[d].drug :
        d \in { q \in 1..Len(usan_json) :
                    \E n \in 1..Len(usan_json[q].usan_codes) :
                        usan_json[q].usan_codes[n].description = description_ } }

\* C8: the trials list of each record equals the union of the trial ids of
\* every classified drug that shares the record's description, not only those
\* of the one drug the record was produced from.
C8_TrialsOfAllDrugsSharing ==
    pc = "q4" =>
        \A k \in 1..Len(trials_by_usan) :
            Range(trials_by_usan[k].trials) =
                UNION { TrialSetOf(drug) :
                          drug \in DrugsDescribed(trials_by_usan[k].description) }

\* the number of usan_codes entries of the usan_json records before record d
RECURSIVE CodesBefore(_)
CodesBefore(d) ==
    IF d <= 1 THEN 0 ELSE CodesBefore(d - 1) + Len(usan_json[d - 1].usan_codes)

\* C8 as amended: the records are the usan_codes entries of usan_json in
\* order, one per drug and entry, and each carries the trial list of the one
\* drug it was produced from (the nct_ids, in artifact order, of the
\* matched_drug_names entries whose rendered drugs list contains the drug's
\* name); only the union over all records of a description equals the union
\* over the drugs sharing it.
C8_TrialsOfOwnDrug ==
    pc = "q4" =>
        /\ Len(trials_by_usan) = CodesBefore(Len(usan_json) + 1)
        /\ \A d \in 1..Len(usan_json) :
               \A n \in 1..Len(usan_json[d].usan_codes) :
                   LET rec  == trials_by_usan[CodesBefore(d) + n]
                       hits == SelectSeq(matched_drug_names,
                                         LAMBDA e : Contains(Render(e.drugs),
                                                             usan_json[d].drug))
                   IN  /\ rec.description = usan_json[d].usan_codes[n].description
                       /\ rec.type = usan_json[d].usan_codes[n].type
                       /\ rec.trials = [h \in 1..Len(hits) |-> hits[h].nct_id]
        /\ \A k \in 1..Len(trials_by_usan) :
               UNION { Range(trials_by_usan[j].trials) :
                         j \in { q \in 1..Len(trials_by_usan) :
                                     trials_by_usan[q].description =
                                         trials_by_usan[k].description } }
                   = UNION { TrialSetOf(drug) :
                               drug \in DrugsDescribed(trials_by_usan[k].description) }

\* two records of one description, produced from two drugs, with different
\* trials
C8_Witness ==
    /\ pc = "q4"
    /\ \E j, k \in 1..Len(trials_by_usan) :
           /\ trials_by_usan[j].description = trials_by_usan[k].description
           /\ Range(trials_by_usan[j].trials) # Range(trials_by_usan[k].trials)
           /\ trials_by_usan[j].trials # << >>
           /\ trials_by_usan[k].trials # << >>

(***************************************************************************)
(* Properties of task 4 (checked under SpecPairs)                          *)
(***************************************************************************)

\* the type=class records of trials_by_usan
ClassRecords == { k \in 1..Len(trials_by_usan) : trials_by_usan[k].type = "class" }

\* the trial ids listed by some class record of this description
ClassTrials(description_) ==
    UNION { Range(trials_by_usan[k].trials) :
              k \in { q \in ClassRecords : trials_by_usan[q].description = description_ } }

ClassDescriptions == { trials_by_usan[k].description : k \in ClassRecords }

\* the rows of counts_of_usan_pairs for the unordered pair {a, b}
RowsOfPair(a, b) ==
    { r \in 1..Len(counts_of_usan_pairs) :
        {counts_of_usan_pairs[r].description_1, counts_of_usan_pairs[r].description_2}
            = {a, b} }

\* C1: for two distinct class descriptions that co-occur in at least one
\* trial, the output has a row for the pair whose trial_count is the number of
\* distinct trial ids listed under both.
C1_CountsCommonTrials ==
    (pc = "done" /\ runs = 1) =>
        \A a, b \in ClassDescriptions :
            (a # b /\ ClassTrials(a) \cap ClassTrials(b) # {}) =>
                \E r \in RowsOfPair(a, b) :
                    counts_of_usan_pairs[r].trial_count =
                        Cardinality(ClassTrials(a) \cap ClassTrials(b))

\* C5: a second run of agg_counts_of_usan_pairs on the same artifact gives the
\* output of the first, in row values and in row order, whatever order the
\* sets of pairs are iterated in.
C5_SecondRunIdentical ==
    runs >= 2 => counts_of_usan_pairs = previous_pairs

\* C6: every row has description_1 < description_2, no two rows carry the same
\* unordered pair, and both descriptions of a row come from type=class
\* records (that share a trial), never from type=subclass records.
C6_PairsCanonicalAndUnique ==
    pc = "done" =>
        \A r \in 1..Len(counts_of_usan_pairs) :
            LET row == counts_of_usan_pairs[r]
            IN  /\ StrLess(row.description_1, row.description_2)
                /\ RowsOfPair(row.description_1, row.description_2) = {r}
                /\ row.description_1 \in ClassDescriptions
                /\ row.description_2 \in ClassDescriptions
                /\ ClassTrials(row.description_1) \cap ClassTrials(row.description_2) # {}

\* an output with a row, from an artifact in which the later description of
\* the row comes first and a subclass record shares the trials of
\* a class record of another description
C6_Witness ==
    /\ pc = "done"
    /\ counts_of_usan_pairs # << >>
    /\ \E j, k \in ClassRecords :
           /\ j < k
           /\ StrLess(trials_by_usan[k].description, trials_by_usan[j].description)
           /\ RowsOfPair(trials_by_usan[j].description, trials_by_usan[k].description) # {}
    /\ \E s \in 1..Len(trials_by_usan) :
           /\ trials_by_usan[s].type = "subclass"
           /\ \E k \in ClassRecords :
                  /\ trials_by_usan[k].trials = trials_by_usan[s].trials
                  /\ trials_by_usan[k].description # trials_by_usan[s].description

====
